---- MODULE Spec2Model ----
(***************************************************************************)
(* ECO SORT: the capture-and-classify orchestration of src/App.tsx (the    *)
(* App component) with the classification client of                        *)
(* src/unnamed/part_001 (analyzeImage).                                     *)
(*                                                                         *)
(* The component is single-threaded and event driven.  Every action below  *)
(* is one run-to-completion segment of the source: a user-gesture handler  *)
(* up to its first await, or the continuation of an async function after   *)
(* a promise has settled.  A handler can fire whenever the element that    *)
(* carries it is rendered by the JSX of App.tsx.                            *)
(*                                                                         *)
(* The state setters are modelled by the value they are called with; they  *)
(* keep being recorded after the unmount cleanup has run.                   *)
(***************************************************************************)
EXTENDS Integers, Sequences, FiniteSets, TLC

(* ------------------------------ bounds --------------------------------- *)
\* asynchronous operations (startCamera calls, FileReader reads and
\* processBase64 calls, applyConstraints requests) started in one behaviour
MaxAsync == 3

(* ----------------------------- constants ------------------------------- *)
NULL == "null"
CameraError ==
  "Unable to access camera. Please ensure permissions are granted and a camera is available."
FileError == "Please upload a valid image file."
AnalyzeError == "Failed to analyze the image. Please try again."
FallbackError == "Something went wrong. Please try again."

\* Strings the code takes apart are sequences of tokens: a token is "," or
\* a run of characters without a comma.
Comma == ","

\* The data URLs processBase64 is called with: what readAsDataURL gives for
\* an image file and for an empty one, and what canvas.toDataURL gives for a
\* canvas with pixels and for a canvas without (width or height 0).
FileUrl == <<"data:image/png;base64", Comma, "iVBORw0KGgo=">>
EmptyFileUrl == <<"data:image/png;base64", Comma>>
FrameUrl == <<"data:image/jpeg;base64", Comma, "/9j/4AAQSkZJRg==">>
EmptyFrameUrl == <<"data:", Comma>>
FileUrls == {FileUrl, EmptyFileUrl}
\* imagePreview: null
NullImage == <<NULL>>

\* The declared type of a selected file, as tokens.
FileTypes ==
  { <<"image", "/", "png">>, <<"text", "/", "plain">>, << >> }
ImagePrefix == <<"image", "/">>

\* video.videoWidth x video.videoHeight: no decoded frame yet, or a frame.
VideoSizes == { [w |-> 0, h |-> 0], [w |-> 1280, h |-> 720] }

\* src/unnamed/part_000: AnalysisResult, the confidence in hundredths.
\* NullResult is the JavaScript null.
Fields ==
  <<"category", "itemName", "confidence", "reasoning", "disposalAction",
    "sustainabilityTip">>
Categories == {"RECYCLE", "COMPOST", "HAZARD", "TRASH"}
NullResult ==
  [category |-> NULL, itemName |-> NULL, confidence |-> 0, reasoning |-> NULL,
   disposalAction |-> NULL, sustainabilityTip |-> NULL]
GoodResult ==
  [category |-> "RECYCLE", itemName |-> "Soda Can", confidence |-> 90,
   reasoning |-> "clean aluminium", disposalAction |-> "Rinse before binning",
   sustainabilityTip |-> "Cans recycle forever"]
OutOfRangeResult ==
  [category |-> "COMPOST", itemName |-> "Greasy Pizza Box", confidence |-> 143,
   reasoning |-> "food stains", disposalAction |-> "Compost bin",
   sustainabilityTip |-> "Grease spoils paper recycling"]

\* The text of a JSON response: the members of an object in order, each a
\* pair of key and value; the text "null"; text cut off in the middle; no text.
JsonStringify(obj) == [i \in 1..Len(Fields) |-> <<Fields[i], obj[Fields[i]]>>]
NullText == << <<"null">> >>
NotJsonText == << <<"{">> >>
NoText == << >>

\* What the provider says when it refuses a request.
ProviderDetails == {"429 RESOURCE_EXHAUSTED", "400 API key not valid"}

\* What the inference call can settle with: a rejection carrying the
\* provider's detail, or a response with a text.
Responses ==
  { [kind |-> "rejected", text |-> NoText, detail |-> d] : d \in ProviderDetails }
  \cup
  { [kind |-> "response", text |-> t, detail |-> ""] :
      t \in { NoText, NotJsonText, NullText, JsonStringify(GoodResult),
              JsonStringify(OutOfRangeResult) } }

\* Torch capability of a stream's primary video track.
Caps == {"torch", "noTorch", "noCapabilityApi"}

(* ------------------------------- state --------------------------------- *)
VARIABLES
  state,          \* useState<AnalysisState>
  isCameraOpen,   \* useState(false)
  isTorchOn,      \* useState(false)
  facingMode,     \* useState('environment')
  hasTorch,       \* useState(false)
  streamRef,      \* streamRef.current: index into streams, 0 for null
  streams,        \* every MediaStream getUserMedia has returned
  calls,          \* startCamera calls suspended at an await getUserMedia
  nCalls,         \* startCamera calls made so far
  reads,          \* FileReader reads in progress
  inflight,       \* processBase64 calls suspended at await analyzeImage
  nClassify,      \* processBase64 calls made so far
  torchOps,       \* toggleTorch calls suspended at await applyConstraints
  nTorch,         \* applyConstraints requests made so far
  mounted,        \* FALSE once the unmount cleanup has run
  tornDown,       \* history: a teardown ran and no camera open was requested since
  last            \* history: the segment that ran last

vars == << state, isCameraOpen, isTorchOn, facingMode, hasTorch, streamRef,
           streams, calls, nCalls, reads, inflight, nClassify, torchOps,
           nTorch, mounted, tornDown, last >>

camVars == << isCameraOpen, isTorchOn, facingMode, hasTorch, streamRef,
              streams, calls, nCalls, torchOps, nTorch >>

InitialState ==
  [isLoading |-> FALSE, result |-> NullResult, error |-> NULL,
   imagePreview |-> NullImage]

\* The record of a segment: its name, the call it belongs to, and its input.
NoteOf(op, id, mode, tier, arg) ==
  [op |-> op, id |-> id, mode |-> mode, tier |-> tier, arg |-> arg]
Note(op, id, mode, tier) == NoteOf(op, id, mode, tier, << >>)

Init ==
  /\ state = InitialState
  /\ isCameraOpen = FALSE
  /\ isTorchOn = FALSE
  /\ facingMode = "environment"
  /\ hasTorch = FALSE
  /\ streamRef = 0
  /\ streams = << >>
  /\ calls = {}
  /\ nCalls = 0
  /\ reads = 0
  /\ inflight = {}
  /\ nClassify = 0
  /\ torchOps = {}
  /\ nTorch = 0
  /\ mounted = TRUE
  /\ tornDown = FALSE
  /\ last = Note("init", 0, "environment", 0)

(* ------------------------------ helpers -------------------------------- *)
\* The asynchronous operations started so far (a read that ended without a
\* result is not counted).
Started == nCalls + nClassify + reads + nTorch

LiveStreams == { i \in 1..Len(streams) : streams[i].live }

\* A stopTracks that clears the ref and stops nothing.
StoppedStreamsKeeping(ref, ss) == ss

\* stopTracks: the tracks of the held stream are stopped and the ref cleared.
StoppedStreams(ref, ss) ==
  IF ref # 0 THEN [ss EXCEPT ![ref].live = FALSE] ELSE ss

(* --------------------------- pure fragments ---------------------------- *)
\* A startCamera that goes from the high-resolution attempt straight to the
\* generic one.
NextTierSkipping(tier) == tier + 2

\* startCamera: the attempt made when the attempt of tier `tier` has failed
\* (the `if (!stream)` chain: high-res, facing mode only, generic).
NextTier(tier) == tier + 1

\* A startCamera that keeps the requested mode on the generic fallback.
FacingAfterKeepingMode(mode, tier) == mode

\* startCamera: the value passed to setFacingMode when tier `tier` succeeds.
FacingAfter(mode, tier) == IF tier = 3 THEN "user" ELSE mode

\* A startCamera that takes a track without getCapabilities for torch-capable.
TorchCapableAssuming(cap) == cap # "noTorch"

\* startCamera: !!capabilities.torch, capabilities being {} when the track
\* has no getCapabilities.
TorchCapable(cap) == cap = "torch"

\* A toggleTorch that applies the constraint without looking.
CanToggleTorchAlways(ref, has) == TRUE

\* toggleTorch: streamRef.current && hasTorch.
CanToggleTorch(ref, has) == ref # 0 /\ has

\* toggleCamera: the mode it asks for.
Opposite(mode) == IF mode = "environment" THEN "user" ELSE "environment"

\* String.prototype.startsWith on token sequences.
StartsWith(str, prefix) ==
  /\ Len(str) >= Len(prefix)
  /\ SubSeq(str, 1, Len(prefix)) = prefix

\* A handleFileSelect that takes every file for an image.
IsImageTypeAnything(type) == TRUE

\* handleFileSelect: file.type.startsWith('image/').
IsImageType(type) == StartsWith(type, ImagePrefix)

\* String.prototype.split(','): the segments between the commas.
RECURSIVE Split(_)
Split(str) ==
  IF \A i \in 1..Len(str) : str[i] # Comma
  THEN << str >>
  ELSE LET k == CHOOSE i \in 1..Len(str) :
                  str[i] = Comma /\ \A j \in 1..(i - 1) : str[j] # Comma
       IN << SubSeq(str, 1, k - 1) >> \o Split(SubSeq(str, k + 1, Len(str)))

\* analyzeImage: base64Image.split(',')[1] || base64Image.
CleanBase64(base64Image) ==
  LET parts == Split(base64Image)
  IN IF Len(parts) >= 2 /\ parts[2] # << >> THEN parts[2] ELSE base64Image

\* capturePhoto: canvas.toDataURL('image/jpeg', 0.9) of a canvas sized to the
\* video; a canvas without pixels serializes to "data:,".
CanvasToDataURL(size) ==
  IF size.w = 0 \/ size.h = 0 THEN EmptyFrameUrl ELSE FrameUrl

\* A parse that loses the last member of the object.
ObjectOfDropping(text) ==
  [k \in {text[i][1] : i \in 1..(Len(text) - 1)} |->
     LET i == CHOOSE i \in 1..(Len(text) - 1) : text[i][1] = k
     IN text[i][2]]

\* JSON.parse of an object text: the members by key, the last one of a key
\* winning.
ObjectOf(text) ==
  [k \in {text[i][1] : i \in 1..Len(text)} |->
     LET i == CHOOSE i \in 1..Len(text) :
                /\ text[i][1] = k
                /\ \A j \in (i + 1)..Len(text) : text[j][1] # k
     IN text[i][2]]

\* JSON.parse: the value, or a SyntaxError.
JsonParse(text) ==
  IF text = NullText
  THEN [ok |-> TRUE, value |-> NullResult, message |-> NULL]
  ELSE IF text # << >> /\ \A i \in 1..Len(text) : Len(text[i]) = 2
       THEN [ok |-> TRUE, value |-> ObjectOf(text), message |-> NULL]
       ELSE [ok |-> FALSE, value |-> NullResult, message |-> "SyntaxError"]

\* analyzeImage: the body of its try block: the request is rejected with the
\* provider's detail, or the response has no text, or its text is parsed.
TryBody(resp) ==
  IF resp.kind = "rejected"
  THEN [ok |-> FALSE, value |-> NullResult, message |-> resp.detail]
  ELSE IF resp.text = NoText
       THEN [ok |-> FALSE, value |-> NullResult,
             message |-> "No response from Gemini."]
       ELSE JsonParse(resp.text)

\* An analyzeImage that rethrows what its try block threw.
AnalyzeImageRethrowing(resp) == TryBody(resp)

\* analyzeImage: what the promise settles with for a service response; the
\* catch block replaces every error by one message.
AnalyzeImage(resp) ==
  LET r == TryBody(resp)
  IN IF r.ok THEN r ELSE [r EXCEPT !.message = AnalyzeError]

\* A processBase64 that sends the request again when it has failed.
InflightAfterRetrying(pending, p, r) ==
  IF r.ok THEN pending \ {p} ELSE pending

\* processBase64: the requests in flight when the call of p has settled with
\* r (nothing is sent again).
InflightAfter(pending, p, r) == pending \ {p}

\* processBase64: the state written before the inference call is made.
ClassifyingState(prev, img) ==
  [prev EXCEPT !.imagePreview = img, !.isLoading = TRUE, !.error = NULL]

\* A processBase64 that drops the preview when the inference call has failed.
SettledStateClearing(prev, r) ==
  IF r.ok
  THEN [prev EXCEPT !.result = r.value, !.isLoading = FALSE]
  ELSE [prev EXCEPT !.error = IF r.message # "" THEN r.message ELSE FallbackError,
                    !.isLoading = FALSE, !.imagePreview = NullImage]

\* processBase64: the state written when the inference call has settled.
SettledState(prev, r) ==
  IF r.ok
  THEN [prev EXCEPT !.result = r.value, !.isLoading = FALSE]
  ELSE [prev EXCEPT !.error = IF r.message # "" THEN r.message ELSE FallbackError,
                    !.isLoading = FALSE]

\* startCamera: the state written in its catch block.
CameraFailedState(prev) == [prev EXCEPT !.error = CameraError]

\* handleFileSelect: the state written for a file that is not an image.
RejectedFileState(prev) == [prev EXCEPT !.error = FileError]

\* resetApp: the state it writes.
ResetState == InitialState

(* ---------------------------- camera steps ----------------------------- *)
\* startCamera up to its first await: stopTracks(), then the tier-1 request;
\* `by` is the button that made the call.
StartCamera(by, mode) ==
  /\ Started < MaxAsync
  /\ streams' = StoppedStreams(streamRef, streams)
  /\ streamRef' = 0
  /\ isTorchOn' = FALSE
  /\ nCalls' = nCalls + 1
  /\ calls' = calls \cup
       {[id |-> nCalls + 1, by |-> by, mode |-> mode, tier |-> 1,
         hist |-> << >>]}
  /\ last' = Note(by, nCalls + 1, mode, 1)
  /\ UNCHANGED << state, isCameraOpen, facingMode, hasTorch, reads, inflight,
                  nClassify, torchOps, nTorch, mounted >>

\* The "Open Camera" button, rendered while state.result is falsy.
OpenCamera ==
  /\ mounted
  /\ state.result = NullResult
  /\ StartCamera("openCamera", "environment")
  /\ tornDown' = FALSE

\* The switch-camera button of the camera overlay.
ToggleCamera ==
  /\ mounted
  /\ isCameraOpen
  /\ StartCamera("toggleCamera", Opposite(facingMode))
  /\ tornDown' = FALSE

\* A getUserMedia promise of call c resolves with a new stream.
GetUserMediaResolve(c, cap) ==
  /\ c \in calls
  /\ streams' = Append(streams, [live |-> TRUE, cap |-> cap])
  /\ facingMode' = FacingAfter(c.mode, c.tier)
  /\ streamRef' = Len(streams) + 1
  /\ isCameraOpen' = TRUE
  /\ state' = [state EXCEPT !.error = NULL]
  /\ hasTorch' = TorchCapable(cap)
  /\ calls' = calls \ {c}
  /\ last' = NoteOf("opened", c.id, c.mode, c.tier, << c.by >>)
  /\ UNCHANGED << isTorchOn, nCalls, reads, inflight, nClassify, torchOps,
                  nTorch, mounted, tornDown >>

\* A getUserMedia promise of call c rejects at tier 1 or 2: the next attempt.
GetUserMediaRetry(c) ==
  /\ c \in calls
  /\ c.tier < 3
  /\ calls' = (calls \ {c}) \cup
       {[c EXCEPT !.tier = NextTier(c.tier), !.hist = Append(c.hist, "fail")]}
  /\ last' = Note("retry", c.id, c.mode, c.tier)
  /\ UNCHANGED << state, isCameraOpen, isTorchOn, facingMode, hasTorch,
                  streamRef, streams, nCalls, reads, inflight, nClassify,
                  torchOps, nTorch, mounted, tornDown >>

\* The tier-3 promise of call c rejects: the catch block of startCamera.
GetUserMediaFail(c) ==
  /\ c \in calls
  /\ c.tier = 3
  /\ state' = CameraFailedState(state)
  /\ isCameraOpen' = FALSE
  /\ calls' = calls \ {c}
  /\ last' = Note("cameraFailed", c.id, c.mode, c.tier)
  /\ UNCHANGED << isTorchOn, facingMode, hasTorch, streamRef, streams, nCalls,
                  reads, inflight, nClassify, torchOps, nTorch, mounted,
                  tornDown >>

\* handleCloseCamera: stopTracks(); setIsCameraOpen(false).
CloseCamera ==
  /\ streams' = StoppedStreams(streamRef, streams)
  /\ streamRef' = 0
  /\ isTorchOn' = FALSE
  /\ isCameraOpen' = FALSE

\* The close button of the camera overlay.
HandleCloseCamera ==
  /\ mounted
  /\ isCameraOpen
  /\ CloseCamera
  /\ tornDown' = TRUE
  /\ last' = Note("handleCloseCamera", 0, facingMode, 0)
  /\ UNCHANGED << state, facingMode, hasTorch, calls, nCalls, reads, inflight,
                  nClassify, torchOps, nTorch, mounted >>

\* The torch button of the camera overlay, rendered while hasTorch.
ToggleTorch ==
  /\ mounted
  /\ isCameraOpen
  /\ hasTorch
  /\ IF CanToggleTorch(streamRef, hasTorch)
     THEN /\ Started < MaxAsync
          /\ nTorch' = nTorch + 1
          /\ torchOps' = torchOps \cup {[id |-> nTorch + 1, newStatus |-> ~isTorchOn]}
     ELSE UNCHANGED << nTorch, torchOps >>
  /\ last' = Note("toggleTorch", 0, facingMode, 0)
  /\ UNCHANGED << state, isCameraOpen, isTorchOn, facingMode, hasTorch,
                  streamRef, streams, calls, nCalls, reads, inflight,
                  nClassify, mounted, tornDown >>

\* applyConstraints resolves: setIsTorchOn(newStatus).
TorchResolve(t) ==
  /\ t \in torchOps
  /\ isTorchOn' = t.newStatus
  /\ torchOps' = torchOps \ {t}
  /\ last' = Note("torchApplied", t.id, facingMode, 0)
  /\ UNCHANGED << state, isCameraOpen, facingMode, hasTorch, streamRef,
                  streams, calls, nCalls, reads, inflight, nClassify, nTorch,
                  mounted, tornDown >>

\* applyConstraints rejects: logged, nothing written.
TorchReject(t) ==
  /\ t \in torchOps
  /\ torchOps' = torchOps \ {t}
  /\ last' = Note("torchRejected", t.id, facingMode, 0)
  /\ UNCHANGED << state, isCameraOpen, isTorchOn, facingMode, hasTorch,
                  streamRef, streams, calls, nCalls, reads, inflight,
                  nClassify, nTorch, mounted, tornDown >>

(* ------------------------- classification steps ------------------------ *)
\* processBase64 up to its await: the state is written and analyzeImage sends
\* `data` to the service.
ProcessBase64(img) ==
  /\ state' = ClassifyingState(state, img)
  /\ nClassify' = nClassify + 1
  /\ inflight' = inflight \cup
       {[id |-> nClassify + 1, img |-> img, data |-> CleanBase64(img)]}

\* The shutter button with the video at `size`: the frame is drawn on a
\* canvas of that size; handleCloseCamera(); processBase64(dataUrl).
CapturePhoto(size) ==
  /\ mounted
  /\ isCameraOpen
  /\ Started < MaxAsync
  /\ CloseCamera
  /\ ProcessBase64(CanvasToDataURL(size))
  /\ tornDown' = TRUE
  /\ last' = NoteOf("capturePhoto", nClassify + 1, facingMode, 0, << size >>)
  /\ UNCHANGED << facingMode, hasTorch, calls, nCalls, reads, torchOps,
                  nTorch, mounted >>

\* handleFileSelect for a file whose type does not start with 'image/'.
RejectFile(type) ==
  /\ state' = RejectedFileState(state)
  /\ last' = NoteOf("handleFileSelect", 0, facingMode, 0, type)
  /\ UNCHANGED << camVars, reads, inflight, nClassify, mounted, tornDown >>

\* handleFileSelect for an image file: the FileReader is started.
ReadFile(type) ==
  /\ Started < MaxAsync
  /\ reads' = reads + 1
  /\ last' = NoteOf("handleFileSelect", 0, facingMode, 0, type)
  /\ UNCHANGED << state, camVars, inflight, nClassify, mounted, tornDown >>

\* The file input, rendered while state.result is falsy: a file of the
\* declared type `type` is selected.
HandleFileSelect(type) ==
  /\ mounted
  /\ state.result = NullResult
  /\ IF IsImageType(type) THEN ReadFile(type) ELSE RejectFile(type)

\* reader.onloadend with the data URL `url`: processBase64(reader.result).
ReadDone(url) ==
  /\ reads > 0
  /\ reads' = reads - 1
  /\ ProcessBase64(url)
  /\ last' = Note("processBase64", nClassify + 1, facingMode, 0)
  /\ UNCHANGED << camVars, mounted, tornDown >>

\* reader.onloadend without a result (the read failed): nothing is done.
ReadFailed ==
  /\ reads > 0
  /\ reads' = reads - 1
  /\ last' = Note("readFailed", 0, facingMode, 0)
  /\ UNCHANGED << state, camVars, inflight, nClassify, mounted, tornDown >>

\* The inference call of p settles: the rest of processBase64.
ClassifyDone(p, resp) ==
  /\ p \in inflight
  /\ state' = SettledState(state, AnalyzeImage(resp))
  /\ inflight' = InflightAfter(inflight, p, AnalyzeImage(resp))
  /\ last' = NoteOf(IF AnalyzeImage(resp).ok THEN "classified" ELSE "classifyFailed",
                    p.id, facingMode, 0, << resp >>)
  /\ UNCHANGED << camVars, reads, nClassify, mounted, tornDown >>

(* ------------------------------ teardown ------------------------------- *)
\* resetApp: the logo, "New Scan", "Try Again" and the result card.
ResetApp ==
  /\ mounted
  /\ CloseCamera
  /\ state' = ResetState
  /\ tornDown' = TRUE
  /\ last' = Note("resetApp", 0, facingMode, 0)
  /\ UNCHANGED << facingMode, hasTorch, calls, nCalls, reads, inflight,
                  nClassify, torchOps, nTorch, mounted >>

\* The cleanup of the mount effect: stopTracks().
Unmount ==
  /\ mounted
  /\ mounted' = FALSE
  /\ streams' = StoppedStreams(streamRef, streams)
  /\ streamRef' = 0
  /\ isTorchOn' = FALSE
  /\ tornDown' = TRUE
  /\ last' = Note("unmount", 0, facingMode, 0)
  /\ UNCHANGED << state, isCameraOpen, facingMode, hasTorch, calls, nCalls,
                  reads, inflight, nClassify, torchOps, nTorch >>

(* --------------------------- specification ----------------------------- *)
Next ==
  \/ OpenCamera
  \/ ToggleCamera
  \/ \E c \in calls, cap \in Caps : GetUserMediaResolve(c, cap)
  \/ \E c \in calls : GetUserMediaRetry(c)
  \/ \E c \in calls : GetUserMediaFail(c)
  \/ HandleCloseCamera
  \/ ToggleTorch
  \/ \E t \in torchOps : TorchResolve(t)
  \/ \E t \in torchOps : TorchReject(t)
  \/ \E size \in VideoSizes : CapturePhoto(size)
  \/ \E type \in FileTypes : HandleFileSelect(type)
  \/ \E url \in FileUrls : ReadDone(url)
  \/ ReadFailed
  \/ \E p \in inflight, resp \in Responses : ClassifyDone(p, resp)
  \/ ResetApp
  \/ Unmount

Spec == Init /\ [][Next]_vars

(* ------------------------------- claims -------------------------------- *)
\* The states of section 4.4 that the flat record is read as.
InResult == state.result # NullResult
InFailed == state.error # NULL
InCapturingPreview == isCameraOpen /\ ~state.isLoading

\* C1: once a teardown (handleCloseCamera, resetApp, unmount) has run, and
\* until the user asks for the camera again, no stream returned by
\* getUserMedia has a live track; this covers a stream that a startCamera call
\* pending at the teardown delivers afterwards.
C1_NoTrackAfterTeardown == tornDown => LiveStreams = {}

\* C2: under every interleaving at most one stream has unstopped tracks; the
\* stream of a superseded acquisition is stopped, not left open.
C2_AtMostOneLiveStream == Cardinality(LiveStreams) <= 1

\* C3: resetApp run from Result, Failed or CapturingPreview leaves the initial
\* AnalysisState, isCameraOpen = false, isTorchOn = false and no live track.
C3_ResetYieldsInitial ==
  [][ ( /\ last'.op = "resetApp"
        /\ (InResult \/ InFailed \/ InCapturingPreview) )
      => ( /\ state' = InitialState
           /\ ~isCameraOpen'
           /\ ~isTorchOn'
           /\ LiveStreams' = {} ) ]_vars

\* C4: in every reachable state a non-null error excludes loading and a result.
C4_ErrorExcludesLoadingAndResult ==
  state.error # NULL => (~state.isLoading /\ state.result = NullResult)

\* C5: in every reachable state isLoading and a stored result never hold
\* together (starting a classification clears the stored result).
C5_NoLoadingWithResult == ~(state.isLoading /\ state.result # NullResult)

\* C6: in every reachable state the camera view and a classification in
\* progress never hold together.
C6_CameraExcludesLoading == ~(isCameraOpen /\ state.isLoading)

\* C7: every completion ends in a stable state: when the inference call of a
\* classification has settled, isLoading is false and result or error is
\* populated; when a camera-open request has settled, the camera is open with
\* a stream held, or closed with an error.
C7_CompletionsAreStable ==
  /\ last.op \in {"classified", "classifyFailed"}
       => (~state.isLoading /\ (state.result # NullResult \/ state.error # NULL))
  /\ last.op = "opened" => (isCameraOpen /\ streamRef # 0)
  /\ last.op = "cameraFailed" => (~isCameraOpen /\ state.error # NULL)

\* C8: within one startCamera call the tiers are attempted strictly in order:
\* the attempt of tier k+1 is made exactly when the attempts of tiers 1..k
\* have all failed, nothing is requested once a tier has succeeded, and the
\* failure of tier 3 ends the call.
C8_TiersInOrder ==
  /\ \A c \in calls :
       /\ c.tier \in 1..3
       /\ c.tier = Len(c.hist) + 1
       /\ \A i \in 1..Len(c.hist) : c.hist[i] = "fail"
  /\ last.op = "retry" =>
       \E c \in calls : c.id = last.id /\ c.tier = last.tier + 1
  /\ last.op = "opened" => ~(\E c \in calls : c.id = last.id)
  /\ last.op = "cameraFailed" =>
       (last.tier = 3 /\ ~(\E c \in calls : c.id = last.id))

\* C8 witness: a call whose three tiers were attempted and all failed.
C8_Witness == last.op = "cameraFailed" /\ last.tier = 3

\* C9: when all three tiers of a startCamera call have failed, the camera
\* error message is set, isCameraOpen is false and no stream is held.
C9_AllTiersFailed ==
  last.op = "cameraFailed" =>
    (state.error = CameraError /\ ~isCameraOpen /\ streamRef = 0)

\* C10: when a startCamera call succeeds at tier 3 the facingMode is 'user'
\* whatever mode was requested; when it succeeds at tier 1 or 2 the
\* facingMode is the requested mode.
C10_FacingMode ==
  last.op = "opened" =>
    /\ last.tier = 3 => facingMode = "user"
    /\ last.tier \in {1, 2} => facingMode = last.mode

\* C10 witness: the rear camera was requested and only tier 3 succeeded.
C10_Witness ==
  /\ last.op = "opened"
  /\ last.tier = 3
  /\ last.mode = "environment"
  /\ facingMode = "user"

\* C11: selecting a file whose declared type does not start with 'image/'
\* sets error to "Please upload a valid image file." and writes nothing else:
\* imagePreview (unset in a fresh session), isLoading and result stay as they
\* were, no file read is started and no inference request is sent.
C11_NonImageFileRejected ==
  [][ ( /\ last'.op = "handleFileSelect"
        /\ ( \/ Len(last'.arg) < 2
             \/ last'.arg[1] # "image"
             \/ last'.arg[2] # "/" ) )
      => ( /\ state'.error = FileError
           /\ state'.imagePreview = state.imagePreview
           /\ state'.isLoading = state.isLoading
           /\ state'.result = state.result
           /\ reads' = reads
           /\ inflight' = inflight
           /\ nClassify' = nClassify ) ]_vars

\* C11 witness: a text file was selected in a fresh session.
C11_Witness ==
  /\ last.op = "handleFileSelect"
  /\ last.arg = <<"text", "/", "plain">>
  /\ state.error = FileError
  /\ state.imagePreview = NullImage
  /\ inflight = {}

\* C12: every processBase64 call (one per capturePhoto, one per file that was
\* accepted and read) sends exactly one inference request; when a request
\* settles, with a result or with a failure, it is gone and none is sent in
\* its place; no other step sends a request.
C12_OneRequestPerClassification ==
  [][ /\ last'.op \in {"capturePhoto", "processBase64"}
        => ( /\ nClassify' = nClassify + 1
             /\ inflight \subseteq inflight'
             /\ Cardinality(inflight') = Cardinality(inflight) + 1 )
      /\ last'.op \in {"classified", "classifyFailed"}
        => ( /\ nClassify' = nClassify
             /\ inflight' \subseteq inflight
             /\ Cardinality(inflight') = Cardinality(inflight) - 1
             /\ \A p \in inflight' : p.id # last'.id )
      /\ last'.op \notin {"capturePhoto", "processBase64", "classified",
                           "classifyFailed"}
        => ( nClassify' = nClassify /\ inflight' = inflight ) ]_vars

\* C12 witness: the only request sent has failed and nothing is in flight.
C12_Witness ==
  /\ last.op = "classifyFailed"
  /\ nClassify = 1
  /\ inflight = {}

\* C13: the error a classification ends with when the service returned no
\* content, or content that does not parse, can be told from the error it
\* ends with when the request itself was rejected.
C13_FailureKindsDistinct ==
  ( /\ last.op = "classifyFailed"
    /\ last.arg[1].kind = "response" )
  => \A d \in ProviderDetails :
       AnalyzeImage([kind |-> "rejected", text |-> NoText, detail |-> d]).message
         # state.error

\* C14: after a failed classification the AnalysisState is the previous one
\* with isLoading = false and error = the fixed message "Failed to analyze
\* the image. Please try again.", whatever the provider's error said.
C14_ErrorIsSanitized ==
  [][ last'.op = "classifyFailed"
      => ( /\ state'.error = AnalyzeError
           /\ state'.error \notin ProviderDetails
           /\ state'.isLoading = FALSE
           /\ state'.result = state.result
           /\ state'.imagePreview = state.imagePreview ) ]_vars

\* C14 witness: the request was rejected with a provider detail and the
\* fixed message is shown.
C14_Witness ==
  /\ last.op = "classifyFailed"
  /\ last.arg[1].kind = "rejected"
  /\ last.arg[1].detail = "429 RESOURCE_EXHAUSTED"
  /\ state.error = AnalyzeError

\* C15: a response that parses to a confidence outside [0,1] (0..100
\* hundredths) makes the classification fail; the value is not stored.
C15_OutOfRangeRejected ==
  ( /\ last.op \in {"classified", "classifyFailed"}
    /\ last.arg[1].kind = "response"
    /\ \E i \in 1..Len(last.arg[1].text) :
         /\ Len(last.arg[1].text[i]) = 2
         /\ last.arg[1].text[i][1] = "confidence"
         /\ last.arg[1].text[i][2] \notin 0..100 )
  => ( /\ last.op = "classifyFailed"
       /\ state.error # NULL )

\* A response text with the six fields of an AnalysisResult, a category of
\* the enum and a confidence in [0,1].
SchemaValid(text) ==
  /\ Len(text) = Len(Fields)
  /\ \A i \in 1..Len(text) : Len(text[i]) = 2 /\ text[i][1] = Fields[i]
  /\ text[1][2] \in Categories
  /\ text[3][2] \in 0..100

\* C16: when a schema-valid response has arrived, the classification has
\* succeeded and state.result has exactly the six fields of the response,
\* each with the value the response gave it.
C16_RoundTrip ==
  ( /\ last.op \in {"classified", "classifyFailed"}
    /\ last.arg[1].kind = "response"
    /\ SchemaValid(last.arg[1].text) )
  => ( /\ last.op = "classified"
       /\ DOMAIN state.result = {Fields[i] : i \in 1..Len(Fields)}
       /\ \A i \in 1..Len(Fields) :
            state.result[Fields[i]] = last.arg[1].text[i][2] )

\* C16 witness: the schema-valid response was stored.
C16_Witness ==
  /\ last.op = "classified"
  /\ last.arg[1].text = JsonStringify(GoodResult)
  /\ state.result.itemName = "Soda Can"
  /\ state.result.confidence = 90

\* The input without its data-URI header: what follows the first comma, or the
\* input when it has no comma.
WithoutHeader(str) ==
  IF \E i \in 1..Len(str) : str[i] = Comma
  THEN LET k == CHOOSE i \in 1..Len(str) :
                  str[i] = Comma /\ \A j \in 1..(i - 1) : str[j] # Comma
       IN SubSeq(str, k + 1, Len(str))
  ELSE str

\* C17: the payload of every request is the input without its data-URI
\* header, also when nothing follows the header.
C17_HeaderStripped == \A p \in inflight : p.data = WithoutHeader(p.img)

\* C18: capturePhoto with a video of width or height 0 produces no payload
\* and starts no classification.
C18_NoEmptyCapture ==
  ( /\ last.op = "capturePhoto"
    /\ (last.arg[1].w = 0 \/ last.arg[1].h = 0) )
  => ( /\ ~state.isLoading
       /\ \A p \in inflight : p.id # last.id )

\* C19: every run of handleCloseCamera (the close button, resetApp,
\* capturePhoto) ends with the tracks of the held stream stopped, streamRef
\* empty, isTorchOn = false and isCameraOpen = false, and leaves no other
\* stream changed; run right after another one, with the camera closed and no
\* stream held, it changes none of them.
C19_CloseIdempotent ==
  [][ last'.op \in {"handleCloseCamera", "resetApp", "capturePhoto"}
      => ( /\ streamRef' = 0
           /\ ~isTorchOn'
           /\ ~isCameraOpen'
           /\ Len(streams') = Len(streams)
           /\ \A i \in 1..Len(streams) :
                streams'[i].live = (streams[i].live /\ i # streamRef)
           /\ ( (~isCameraOpen /\ streamRef = 0 /\ ~isTorchOn)
                  => streams' = streams )
           /\ ( last.op \in {"handleCloseCamera", "resetApp", "capturePhoto"}
                  => << streamRef', streams', isTorchOn', isCameraOpen' >>
                       = << streamRef, streams, isTorchOn, isCameraOpen >> ) ) ]_vars

\* C19 witness: the close button was pressed with a stream held; its tracks
\* are stopped.
C19_Witness ==
  /\ last.op = "handleCloseCamera"
  /\ Len(streams) = 1
  /\ ~streams[1].live
  /\ streamRef = 0
  /\ ~isCameraOpen

\* C20: when a toggleCamera call has completed, the camera view is open, the
\* held stream is the one just acquired, and the stream held before it is
\* stopped: no other stream has a live track.
C20_ToggleReplacesStream ==
  ( /\ last.op = "opened"
    /\ last.arg = << "toggleCamera" >> )
  => ( /\ isCameraOpen
       /\ streamRef = Len(streams)
       /\ streams[streamRef].live
       /\ LiveStreams = {streamRef} )

\* C21: at most one classification request is in flight at any time.
C21_OneClassificationInFlight == Cardinality(inflight) <= 1

\* C22: when a segment has issued a getUserMedia request (the first attempt of
\* a startCamera call, or the attempt after a failed one), no stream has a
\* live track and streamRef is empty.
C22_NoRequestWhileLive ==
  last.op \in {"openCamera", "toggleCamera", "retry"}
    => (LiveStreams = {} /\ streamRef = 0)

\* C23: a toggleTorch that finds no stream held, or a held track without torch
\* capability, applies no constraint and leaves isTorchOn and the
\* AnalysisState as they were; a rejected applyConstraints leaves isTorchOn
\* and the AnalysisState as they were.
C23_TorchNoEffect ==
  [][ /\ ( /\ last'.op = "toggleTorch"
           /\ (streamRef = 0 \/ streams[streamRef].cap # "torch") )
        => ( /\ torchOps' = torchOps
             /\ nTorch' = nTorch
             /\ isTorchOn' = isTorchOn
             /\ state' = state )
      /\ last'.op = "torchRejected"
        => ( /\ isTorchOn' = isTorchOn
             /\ state' = state
             /\ torchOps' \subseteq torchOps ) ]_vars

\* C23 witness: the torch button was pressed while a camera switch was
\* pending and no stream was held; nothing was requested.
C23_Witness ==
  /\ last.op = "toggleTorch"
  /\ isCameraOpen
  /\ hasTorch
  /\ streamRef = 0
  /\ nTorch = 0
  /\ ~isTorchOn

\* C24: imagePreview changes only when processBase64 starts a classification
\* (it becomes the payload of that call) and in resetApp (it becomes null);
\* every other segment leaves it as it was.
C24_PreviewFrame ==
  [][ /\ state'.imagePreview # state.imagePreview
        => last'.op \in {"capturePhoto", "processBase64", "resetApp"}
      /\ last'.op \in {"capturePhoto", "processBase64"}
        => \E p \in inflight' \ inflight :
             p.id = last'.id /\ state'.imagePreview = p.img
      /\ last'.op = "resetApp" => state'.imagePreview = NullImage ]_vars

\* C24 witness: a classification has failed and its preview is still shown.
C24_Witness ==
  /\ last.op = "classifyFailed"
  /\ state.error = AnalyzeError
  /\ state.imagePreview = FileUrl

\* C25: a stored result comes with a preview: result != null implies
\* imagePreview != null (a response that arrives after resetApp is not
\* stored).
C25_ResultHasPreview ==
  state.result # NullResult => state.imagePreview # NullImage

\* C26: after every segment, a stream in streamRef implies isCameraOpen.
C26_StreamOnlyWhileOpen == streamRef # 0 => isCameraOpen

\* C27: isTorchOn implies a stream is held.
C27_TorchNeedsStream == isTorchOn => streamRef # 0

\* C28: while a stream is held, hasTorch says whether the track of that
\* stream reported the torch capability; a track without getCapabilities
\* counts as not capable.
C28_HasTorchOfHeldStream ==
  streamRef # 0 => (hasTorch <=> streams[streamRef].cap = "torch")

\* C28 witness: a torch-capable stream was replaced by one whose track has no
\* getCapabilities; hasTorch is false.
C28_Witness ==
  /\ Len(streams) = 2
  /\ streams[1].cap = "torch"
  /\ streamRef = 2
  /\ streams[2].cap = "noCapabilityApi"
  /\ ~hasTorch

====
